---- MODULE Spec2Model ----
(***************************************************************************)
(* State-machine model of the fitness tracker API (Django REST framework): *)
(* the Activity and Leaderboard tables, the user table, and one action per *)
(* request handler of fitness/views.py and per step of                      *)
(* Leaderboard.update_leaderboard of fitness/models.py.                     *)
(*                                                                         *)
(* Encodings.  A calendar date is the integer yyyymmdd (2024-03-05 is      *)
(* 20240305), so that date order is integer order.  A decimal with two     *)
(* places is the integer number of hundredths (5.00 km is 500).  Python's  *)
(* None / SQL NULL is NULL; a key missing from a request payload is ABSENT.*)
(***************************************************************************)
EXTENDS Integers, Sequences, FiniteSets, TLC

VARIABLES
    users,            \* auth_user rows: [id, is_superuser]
    activities,       \* fitness_activity rows
    leaderboard,      \* fitness_leaderboard rows
    nextActivityId,   \* next primary key of fitness_activity
    nextLeaderboardId,\* next primary key of fitness_leaderboard
    today,            \* timezone.now().date()
    pc,               \* per worker: position inside update_leaderboard
    call,             \* per worker: arguments and locals of update_leaderboard
    seen,             \* per worker: aggregates of the store observed during the call (history)
    resp              \* the last completed request and its response

vars == <<users, activities, leaderboard, nextActivityId, nextLeaderboardId,
          today, pc, call, seen, resp>>

----------------------------------------------------------------------------
(* Bounds and input domains *)

MaxActivities == 2

NULL == -1
ABSENT == -2

Anon == "anonymous"
UserPool == {"A", "B"}
Identities == UserPool \cup {Anon}
Workers == {"w1", "w2"}

ACTIVITY_CHOICES == {"Running", "Cycling", "Weightlifting", "Swimming", "Walking"}
NoType == ""

----------------------------------------------------------------------------
(* Dates: datetime.date as yyyymmdd *)

YearOf(d) == d \div 10000
MonthOf(d) == (d \div 100) % 100
DayOf(d) == d % 100

IsLeap(y) == (y % 4 = 0) /\ ((y % 100 # 0) \/ (y % 400 = 0))

DaysInMonth(y, m) ==
    IF m = 2 THEN (IF IsLeap(y) THEN 29 ELSE 28)
    ELSE IF m \in {4, 6, 9, 11} THEN 30 ELSE 31

RECURSIVE DaysBeforeMonth(_, _)
DaysBeforeMonth(y, m) ==
    IF m = 1 THEN 0 ELSE DaysBeforeMonth(y, m - 1) + DaysInMonth(y, m - 1)

DaysBeforeYear(y) ==
    LET p == y - 1 IN p * 365 + (p \div 4) - (p \div 100) + (p \div 400)

\* date.toordinal(): 0001-01-01 is day 1
ToOrdinal(d) == DaysBeforeYear(YearOf(d)) + DaysBeforeMonth(YearOf(d), MonthOf(d)) + DayOf(d)

\* date.weekday(): Monday is 0
Weekday(d) == (ToOrdinal(d) + 6) % 7

\* today.replace(day=1)
ReplaceDay1(d) == d - DayOf(d) + 1

----------------------------------------------------------------------------
(* Generic helpers *)

\* Sum of f[x] over the rows x of S
RECURSIVE SumFn(_, _)
SumFn(f, S) ==
    IF S = {} THEN 0
    ELSE LET x == CHOOSE y \in S : TRUE IN f[x] + SumFn(f, S \ {x})

\* SQL SUM(column): NULL values are skipped, and the sum of no value is NULL
SqlSum(f, S) ==
    LET nonNull == {x \in S : f[x] # NULL}
    IN  IF nonNull = {} THEN NULL ELSE SumFn(f, nonNull)

\* Python's `value or 0`: None and 0 are both falsy
OrZero(v) == IF v = NULL \/ v = 0 THEN 0 ELSE v

UserIds == {u.id : u \in users}
IsAuthenticated(actor) == actor \in UserIds
IsSuperuser(actor) == \E u \in users : u.id = actor /\ u.is_superuser

NoData == [activity_type |-> NoType, duration |-> ABSENT, distance |-> ABSENT,
           calories_burned |-> ABSENT, date |-> ABSENT]
NoQuery == [activity_type |-> NoType, start_date |-> ABSENT, end_date |-> ABSENT]
NoKey == [user |-> Anon, month |-> 0, year |-> 0]

Response(op, actor, status) ==
    [op |-> op, actor |-> actor, status |-> status, target |-> 0, data |-> NoData,
     username |-> "", body |-> {}, ranking |-> <<>>, key |-> NoKey, again |-> FALSE]

----------------------------------------------------------------------------
(* ActivitySerializer *)

\* Field-level validation the ModelSerializer derives from the Activity model:
\* activity_type, duration and calories_burned are required (no default, not
\* blank, not null) unless the update is partial; distance is optional and
\* nullable; date has a default and is therefore not required.
FieldErrors(data, partial) ==
    {f \in {"activity_type"} : data.activity_type = NoType /\ ~partial}
    \cup {f \in {"activity_type"} :
            data.activity_type # NoType /\ data.activity_type \notin ACTIVITY_CHOICES}
    \cup {f \in {"duration"} : data.duration = ABSENT /\ ~partial}
    \cup {f \in {"duration"} : data.duration # ABSENT /\ data.duration < 1}
    \cup {f \in {"calories_burned"} : data.calories_burned = ABSENT /\ ~partial}
    \cup {f \in {"distance"} : data.distance \notin {ABSENT, NULL} /\ data.distance > 99999}

\* validate with "Walking" left out of the distance-based kinds
Mut_validate(data) ==
    IF data.activity_type = NoType THEN "activity_type"
    ELSE IF data.duration \in {ABSENT, NULL} THEN "duration"
    ELSE IF data.date \in {ABSENT, NULL} THEN "date"
    ELSE IF data.activity_type \in {"Running", "Cycling", "Swimming"}
            /\ data.distance \in {ABSENT, NULL} THEN "distance"
    ELSE "ok"

\* ActivitySerializer.validate: "ok" or the field the ValidationError names.
\* data.get(k) is None both for a missing key and for an explicit null.
validate(data) ==
    IF data.activity_type = NoType THEN "activity_type"
    ELSE IF data.duration \in {ABSENT, NULL} THEN "duration"
    ELSE IF data.date \in {ABSENT, NULL} THEN "date"
    ELSE IF data.activity_type \in {"Running", "Cycling", "Swimming", "Walking"}
            /\ data.distance \in {ABSENT, NULL} THEN "distance"
    ELSE "ok"

\* serializer.is_valid(): validate() runs only when every field validated
IsValid(data, partial) == FieldErrors(data, partial) = {} /\ validate(data) = "ok"

\* Model instance built by serializer.save(user=...) on create
NewActivity(id, actor, data) ==
    [id |-> id, user |-> actor,
     activity_type |-> data.activity_type,
     duration |-> data.duration,
     distance |-> IF data.distance = ABSENT THEN NULL ELSE data.distance,
     calories_burned |-> data.calories_burned,
     date |-> data.date]

\* serializer.save(user=...) on update: every supplied field is assigned
UpdatedActivity(obj, actor, data) ==
    [id |-> obj.id, user |-> actor,
     activity_type |-> IF data.activity_type = NoType THEN obj.activity_type
                       ELSE data.activity_type,
     duration |-> IF data.duration = ABSENT THEN obj.duration ELSE data.duration,
     distance |-> IF data.distance = ABSENT THEN obj.distance ELSE data.distance,
     calories_burned |-> IF data.calories_burned = ABSENT THEN obj.calories_burned
                         ELSE data.calories_burned,
     date |-> IF data.date = ABSENT THEN obj.date ELSE data.date]

----------------------------------------------------------------------------
(* Permissions and query scoping *)

SAFE_METHODS == {"GET", "HEAD", "OPTIONS"}

\* IsOwnerOrReadOnly.has_object_permission
has_object_permission(method, actor, obj) ==
    IF method \in SAFE_METHODS THEN TRUE ELSE obj.user = actor

\* get_queryset without the filter on the requesting user
Mut_ActivityViewSet_get_queryset(actor, q) ==
    LET byType == IF q.activity_type # NoType
                  THEN {a \in activities : a.activity_type = q.activity_type}
                  ELSE activities
    IN  IF q.start_date # ABSENT /\ q.end_date # ABSENT
        THEN {a \in byType : q.start_date <= a.date /\ a.date <= q.end_date}
        ELSE byType

\* ActivityViewSet.get_queryset
ActivityViewSet_get_queryset(actor, q) ==
    LET own == {a \in activities : a.user = actor}
        byType == IF q.activity_type # NoType
                  THEN {a \in own : a.activity_type = q.activity_type}
                  ELSE own
    IN  IF q.start_date # ABSENT /\ q.end_date # ABSENT
        THEN {a \in byType : q.start_date <= a.date /\ a.date <= q.end_date}
        ELSE byType

\* UserViewSet.get_queryset
UserViewSet_get_queryset(actor) ==
    IF IsSuperuser(actor) THEN users ELSE {u \in users : u.id = actor}

----------------------------------------------------------------------------
(* ActivityViewSet request handlers *)

Idle == \A w \in Workers : pc[w] = "idle"

\* filter(user=user, date__month=month, date__year=year)
Matching(acts, c) ==
    {a \in acts : a.user = c.user /\ MonthOf(a.date) = c.month /\ YearOf(a.date) = c.year}

\* History: what an aggregation over the store would give for worker w's key
Aggregate(acts, c) ==
    LET m == Matching(acts, c) IN
    [n |-> Cardinality(m),
     distance |-> SumFn([a \in m |-> IF a.distance = NULL THEN 0 ELSE a.distance], m),
     calories |-> SumFn([a \in m |-> a.calories_burned], m)]

\* History: each running update_leaderboard call observes the store after a write
ObserveAfter(acts) ==
    [w \in Workers |->
        IF pc[w] = "idle" THEN seen[w] ELSE seen[w] \cup {Aggregate(acts, call[w])}]

\* perform_create that also recomputes the owner's leaderboard row of the month
\* of the new Activity
Mut_CreateActivity(actor, data) ==
    /\ nextActivityId <= MaxActivities
    /\ IF ~IsAuthenticated(actor)
       THEN /\ resp' = [Response("create", actor, "not_authenticated") EXCEPT !.data = data]
            /\ UNCHANGED <<activities, nextActivityId, leaderboard, nextLeaderboardId>>
       ELSE IF ~IsValid(data, FALSE)
       THEN /\ resp' = [Response("create", actor, "bad_request") EXCEPT !.data = data]
            /\ UNCHANGED <<activities, nextActivityId, leaderboard, nextLeaderboardId>>
       ELSE LET row == NewActivity(nextActivityId, actor, data)
                k == [user |-> actor, month |-> MonthOf(data.date),
                      year |-> YearOf(data.date)]
                t == Aggregate(activities \cup {row}, k)
                old == {e \in leaderboard : [user |-> e.user, month |-> e.month,
                                              year |-> e.year] = k}
            IN  /\ activities' = activities \cup {row}
                /\ nextActivityId' = nextActivityId + 1
                /\ leaderboard' = (leaderboard \ old) \cup
                      {[id |-> nextLeaderboardId, user |-> k.user, month |-> k.month,
                        year |-> k.year, total_activities |-> t.n,
                        total_distance |-> t.distance,
                        total_calories_burned |-> t.calories]}
                /\ nextLeaderboardId' = nextLeaderboardId + 1
                /\ resp' = [Response("create", actor, "created") EXCEPT
                              !.data = data, !.target = row.id, !.body = {row}]
    /\ seen' = ObserveAfter(activities')
    /\ UNCHANGED <<users, today, pc, call>>

\* POST /activities/ : CreateModelMixin.create + perform_create
CreateActivity(actor, data) ==
    /\ nextActivityId <= MaxActivities
    /\ IF ~IsAuthenticated(actor)
       THEN /\ resp' = [Response("create", actor, "not_authenticated") EXCEPT !.data = data]
            /\ UNCHANGED <<activities, nextActivityId>>
       ELSE IF ~IsValid(data, FALSE)
       THEN /\ resp' = [Response("create", actor, "bad_request") EXCEPT !.data = data]
            /\ UNCHANGED <<activities, nextActivityId>>
       ELSE LET row == NewActivity(nextActivityId, actor, data)
            IN  /\ activities' = activities \cup {row}
                /\ nextActivityId' = nextActivityId + 1
                /\ resp' = [Response("create", actor, "created") EXCEPT
                              !.data = data, !.target = row.id, !.body = {row}]
    /\ seen' = ObserveAfter(activities')
    /\ UNCHANGED <<users, leaderboard, nextLeaderboardId, today, pc, call>>

\* PUT (partial = FALSE) and PATCH (partial = TRUE) /activities/{id}/ :
\* UpdateModelMixin.update: get_object, is_valid, perform_update
UpdateActivity(actor, id, q, data, partial) ==
    LET op == IF partial THEN "patch" ELSE "put"
        method == IF partial THEN "PATCH" ELSE "PUT"
        found == {a \in ActivityViewSet_get_queryset(actor, q) : a.id = id}
        answer(status) == [Response(op, actor, status) EXCEPT !.target = id]
    IN
    /\ IF ~IsAuthenticated(actor)
       THEN resp' = answer("not_authenticated") /\ UNCHANGED activities
       ELSE IF found = {}
       THEN resp' = answer("not_found") /\ UNCHANGED activities
       ELSE LET obj == CHOOSE a \in found : TRUE IN
            IF ~has_object_permission(method, actor, obj)
            THEN resp' = answer("forbidden") /\ UNCHANGED activities
            ELSE IF ~IsValid(data, partial)
            THEN resp' = answer("bad_request") /\ UNCHANGED activities
            ELSE LET row == UpdatedActivity(obj, actor, data)
                 IN  /\ activities' = (activities \ {obj}) \cup {row}
                     /\ resp' = [answer("ok") EXCEPT !.body = {row}]
    /\ seen' = ObserveAfter(activities')
    /\ UNCHANGED <<users, leaderboard, nextActivityId, nextLeaderboardId, today,
                   pc, call>>

\* DELETE /activities/{id}/ : DestroyModelMixin.destroy + perform_destroy
DestroyActivity(actor, id, q) ==
    LET found == {a \in ActivityViewSet_get_queryset(actor, q) : a.id = id}
        answer(status) == [Response("delete", actor, status) EXCEPT !.target = id]
    IN
    /\ IF ~IsAuthenticated(actor)
       THEN resp' = answer("not_authenticated") /\ UNCHANGED activities
       ELSE IF found = {}
       THEN resp' = answer("not_found") /\ UNCHANGED activities
       ELSE LET obj == CHOOSE a \in found : TRUE IN
            IF ~has_object_permission("DELETE", actor, obj)
            THEN resp' = answer("forbidden") /\ UNCHANGED activities
            ELSE /\ activities' = IF obj.user = actor THEN activities \ {obj}
                                  ELSE activities
                 /\ resp' = answer("no_content")
    /\ seen' = ObserveAfter(activities')
    /\ UNCHANGED <<users, leaderboard, nextActivityId, nextLeaderboardId, today,
                   pc, call>>

\* GET /activities/ : ListModelMixin.list over get_queryset
ListActivities(actor, q) ==
    /\ IF ~IsAuthenticated(actor)
       THEN resp' = Response("list", actor, "not_authenticated")
       ELSE resp' = [Response("list", actor, "ok") EXCEPT
                       !.body = ActivityViewSet_get_queryset(actor, q)]
    /\ UNCHANGED <<users, activities, leaderboard, nextActivityId, nextLeaderboardId,
                   today, pc, call, seen>>

----------------------------------------------------------------------------
(* UserViewSet request handlers: permission_classes = [IsAuthenticated] *)

\* POST /users/ : CreateModelMixin.create + UserSerializer.create
Register(actor, username) ==
    /\ IF ~IsAuthenticated(actor)
       THEN resp' = [Response("register", actor, "not_authenticated") EXCEPT !.username = username] /\ UNCHANGED users
       ELSE IF username \in UserIds
       THEN resp' = [Response("register", actor, "bad_request") EXCEPT !.username = username] /\ UNCHANGED users
       ELSE /\ users' = users \cup {[id |-> username, is_superuser |-> FALSE]}
            /\ resp' = [Response("register", actor, "created") EXCEPT !.username = username]
    /\ UNCHANGED <<activities, leaderboard, nextActivityId, nextLeaderboardId, today,
                   pc, call, seen>>

\* GET /users/ : ListModelMixin.list over get_queryset
ListUsers(actor) ==
    /\ IF ~IsAuthenticated(actor)
       THEN resp' = Response("list_users", actor, "not_authenticated")
       ELSE resp' = [Response("list_users", actor, "ok") EXCEPT
                       !.body = UserViewSet_get_queryset(actor)]
    /\ UNCHANGED <<users, activities, leaderboard, nextActivityId, nextLeaderboardId,
                   today, pc, call, seen>>

\* DELETE /users/{id}/ : DestroyModelMixin.destroy; Activity.user and
\* Leaderboard.user are ForeignKey(on_delete=CASCADE)
DestroyUser(actor, target) ==
    LET found == {u \in UserViewSet_get_queryset(actor) : u.id = target} IN
    /\ IF ~IsAuthenticated(actor)
       THEN /\ resp' = Response("delete_user", actor, "not_authenticated")
            /\ UNCHANGED <<users, activities, leaderboard>>
       ELSE IF found = {}
       THEN /\ resp' = Response("delete_user", actor, "not_found")
            /\ UNCHANGED <<users, activities, leaderboard>>
       ELSE /\ users' = users \ found
            /\ activities' = {a \in activities : a.user # target}
            /\ leaderboard' = {e \in leaderboard : e.user # target}
            /\ resp' = Response("delete_user", actor, "no_content")
    /\ seen' = ObserveAfter(activities')
    /\ UNCHANGED <<nextActivityId, nextLeaderboardId, today, pc, call>>

----------------------------------------------------------------------------
(* Initial states *)

NoCall == [user |-> Anon, month |-> 0, year |-> 0, total_activities |-> 0,
           total_distance |-> 0, total_calories_burned |-> 0, obj |-> 0]

InitStore(us, days) ==
    /\ users = us
    /\ activities = {}
    /\ leaderboard = {}
    /\ nextActivityId = 1
    /\ nextLeaderboardId = 1
    /\ today \in days
    /\ pc = [w \in Workers |-> "idle"]
    /\ call = [w \in Workers |-> NoCall]
    /\ seen = [w \in Workers |-> {}]
    /\ resp = Response("none", Anon, "none")

Admin == [id |-> "A", is_superuser |-> TRUE]
Member == [id |-> "B", is_superuser |-> FALSE]

----------------------------------------------------------------------------
(* Spec: activity CRUD and user records, one request at a time *)

Payload(t, dur, dist, cal, d) ==
    [activity_type |-> t, duration |-> dur, distance |-> dist,
     calories_burned |-> cal, date |-> d]

CrudPayloads ==
    { Payload("Running", 30, 500, 300, 20240305),
      Payload("Running", 30, ABSENT, 300, 20240305),
      Payload("Weightlifting", 45, ABSENT, 200, 20240310),
      Payload(NoType, ABSENT, ABSENT, 250, ABSENT) }

CrudQueries ==
    { NoQuery,
      [activity_type |-> "Running", start_date |-> ABSENT, end_date |-> ABSENT],
      [activity_type |-> NoType, start_date |-> 20240301, end_date |-> 20240305],
      [activity_type |-> NoType, start_date |-> 20240306, end_date |-> ABSENT] }

DetailQueries ==
    { NoQuery,
      [activity_type |-> "Running", start_date |-> ABSENT, end_date |-> ABSENT] }

ActivityIds == 1..MaxActivities

Init == InitStore({Admin}, {20240313})

Next ==
    \/ \E actor \in Identities, data \in CrudPayloads : CreateActivity(actor, data)
    \/ \E actor \in Identities, id \in ActivityIds, q \in DetailQueries,
          data \in CrudPayloads, partial \in BOOLEAN :
            UpdateActivity(actor, id, q, data, partial)
    \/ \E actor \in Identities, id \in ActivityIds, q \in DetailQueries :
            DestroyActivity(actor, id, q)
    \/ \E actor \in Identities, q \in CrudQueries : ListActivities(actor, q)
    \/ \E actor \in Identities, username \in UserPool : Register(actor, username)
    \/ \E actor \in Identities : ListUsers(actor)
    \/ \E actor \in Identities, target \in UserPool : DestroyUser(actor, target)

Spec == Init /\ [][Next]_vars

Rejected == {"not_authenticated", "not_found", "forbidden"}

\* C2: a PUT, PATCH or DELETE by an identity on an Activity owned by another
\* identity is rejected and leaves that Activity stored with every field
\* (owner included) unchanged, and an Activity list never contains a row whose
\* owner is not the requesting identity, whatever filters are supplied.
C2_NonOwnerIsolated ==
    [][ /\ \A a \in activities :
             ( /\ resp'.op \in {"put", "patch", "delete"}
               /\ resp'.target = a.id
               /\ resp'.actor # a.user )
             => (resp'.status \in Rejected /\ a \in activities')
        /\ (resp'.op = "list" => \A a \in resp'.body : a.user = resp'.actor)
      ]_vars

\* C2 witness: a registered identity's write on another registered identity's
\* stored Activity has just been rejected.
C2_Witness ==
    /\ resp.op \in {"put", "patch", "delete"}
    /\ resp.status \in Rejected
    /\ IsAuthenticated(resp.actor)
    /\ \E a \in activities :
         a.id = resp.target /\ a.user # resp.actor /\ IsAuthenticated(a.user)
    /\ \E b \in activities : b.user = resp.actor

\* C9 as claimed: an unauthenticated registration with a fresh username is
\* accepted and creates one user record, while every other user-record and
\* activity operation by an unauthenticated caller is refused.
C9_RegistrationOpen ==
    [][ /\ ( /\ resp'.op = "register"
             /\ resp'.actor = Anon
             /\ resp'.username \notin UserIds )
           => ( /\ resp'.status = "created"
                /\ users' = users \cup {[id |-> resp'.username, is_superuser |-> FALSE]} )
        /\ ( /\ resp'.op \notin {"register", "none"}
             /\ resp'.actor = Anon )
           => ( /\ resp'.status = "not_authenticated"
                /\ UNCHANGED <<users, activities, leaderboard>> )
      ]_vars

----------------------------------------------------------------------------
(* SpecCreate: activity creation over every kind *)

CreatePayloads ==
    { Payload(t, 30, dist, 300, 20240305) :
        t \in ACTIVITY_CHOICES \cup {NoType}, dist \in {ABSENT, NULL, 500} }
    \cup { Payload("Weightlifting", dur, ABSENT, cal, d) :
             dur \in {ABSENT, 0, 45}, cal \in {ABSENT, 200}, d \in {ABSENT, 20240310} }

InitCreate == InitStore({Admin, Member}, {20240313})

NextCreate ==
    \/ \E actor \in Identities, data \in CreatePayloads : CreateActivity(actor, data)
    \/ \E actor \in Identities, id \in ActivityIds : DestroyActivity(actor, id, NoQuery)

SpecCreate == InitCreate /\ [][NextCreate]_vars

DistanceKinds == ACTIVITY_CHOICES \ {"Weightlifting"}

OneRowInserted(before, after, actor, data) ==
    \E row \in after :
        /\ row \notin before
        /\ after = before \cup {row}
        /\ \A a \in before : a.id # row.id
        /\ row.user = actor
        /\ row.activity_type = data.activity_type
        /\ row.distance = NULL

\* C1 (amended): by an authenticated identity, creating an Activity of kind
\* Running, Cycling, Swimming or Walking without a distance (absent or null)
\* fails validation and inserts no row; creating a Weightlifting Activity
\* without a distance succeeds, given a valid duration, a date and
\* calories_burned are supplied, and inserts exactly one row owned by the
\* requesting identity.
C1_DistanceRule ==
    [][ (resp'.op = "create" /\ IsAuthenticated(resp'.actor)) =>
          LET d == resp'.data IN
          /\ (d.activity_type \in DistanceKinds /\ d.distance \in {ABSENT, NULL})
             => (resp'.status = "bad_request" /\ activities' = activities)
          /\ ( /\ d.activity_type = "Weightlifting"
               /\ d.distance \in {ABSENT, NULL}
               /\ d.duration >= 1
               /\ d.date # ABSENT
               /\ d.calories_burned # ABSENT )
             => ( /\ resp'.status = "created"
                  /\ OneRowInserted(activities, activities', resp'.actor, d) )
      ]_vars

\* C1 as claimed: the Weightlifting create succeeds as soon as kind, duration
\* and date are supplied.
C1_AsClaimed ==
    [][ (resp'.op = "create" /\ IsAuthenticated(resp'.actor)) =>
          LET d == resp'.data IN
          /\ (d.activity_type \in DistanceKinds /\ d.distance \in {ABSENT, NULL})
             => (resp'.status = "bad_request" /\ activities' = activities)
          /\ ( /\ d.activity_type = "Weightlifting"
               /\ d.distance \in {ABSENT, NULL}
               /\ d.duration >= 1
               /\ d.date # ABSENT )
             => ( /\ resp'.status = "created"
                  /\ OneRowInserted(activities, activities', resp'.actor, d) )
      ]_vars

\* C1 witness: a distance-based create without distance has just been refused
\* while a Weightlifting row created without distance is stored.
C1_Witness ==
    /\ resp.op = "create"
    /\ resp.status = "bad_request"
    /\ IsAuthenticated(resp.actor)
    /\ resp.data.activity_type \in DistanceKinds
    /\ resp.data.distance \in {ABSENT, NULL}
    /\ resp.data.duration >= 1 /\ resp.data.date # ABSENT
    /\ \E a \in activities :
         a.activity_type = "Weightlifting" /\ a.distance = NULL /\ a.user = resp.actor

----------------------------------------------------------------------------
(* ActivityViewSet.activity_metrics *)

\* today - timedelta(days=today.isoweekday()), as an ordinal
Mut_start_of_week(d) == ToOrdinal(d) - (Weekday(d) + 1)

\* today - timedelta(days=today.weekday()), as an ordinal
start_of_week(d) == ToOrdinal(d) - Weekday(d)

activity_metrics(actor) ==
    LET own == {a \in activities : a.user = actor}
        start_of_month == ReplaceDay1(today)
    IN  [total_duration |-> OrZero(SqlSum([a \in own |-> a.duration], own)),
         total_distance |->
            LET withDistance == {a \in own : a.distance # NULL}
            IN  OrZero(SqlSum([a \in withDistance |-> a.distance], withDistance)),
         total_calories_burned |-> OrZero(SqlSum([a \in own |-> a.calories_burned], own)),
         weekly_activities |->
            Cardinality({a \in own : ToOrdinal(a.date) >= start_of_week(today)}),
         monthly_activities |->
            Cardinality({a \in own : a.date >= start_of_month})]

\* GET /activities/metrics/
Metrics(actor) ==
    /\ IF ~IsAuthenticated(actor)
       THEN resp' = Response("metrics", actor, "not_authenticated")
       ELSE resp' = [Response("metrics", actor, "ok") EXCEPT
                       !.body = {activity_metrics(actor)}]
    /\ UNCHANGED <<users, activities, leaderboard, nextActivityId, nextLeaderboardId,
                   today, pc, call, seen>>

----------------------------------------------------------------------------
(* SpecMetrics: activity writes and the metrics endpoint *)

MetricsPayloads ==
    { Payload(k[1], k[2], k[3], k[4], d) :
        k \in { <<"Running", 30, 500, 300>>, <<"Weightlifting", 45, ABSENT, 200>> },
        d \in {20240227, 20240310, 20240312} }

InitMetrics == InitStore({Admin, Member}, {20240302, 20240313})

NextMetrics ==
    \/ \E actor \in UserPool, data \in MetricsPayloads : CreateActivity(actor, data)
    \/ \E actor \in UserPool, id \in ActivityIds :
            UpdateActivity(actor, id, NoQuery,
                           Payload("Weightlifting", 45, ABSENT, 200, 20240312), TRUE)
    \/ \E actor \in UserPool, id \in ActivityIds : DestroyActivity(actor, id, NoQuery)
    \/ \E actor \in Identities : Metrics(actor)

SpecMetrics == InitMetrics /\ [][NextMetrics]_vars

\* Sum of val[1] + ... + val[n]
RECURSIVE SumTo(_, _)
SumTo(val, n) == IF n = 0 THEN 0 ELSE SumTo(val, n - 1) + val[n]

\* Sum, by primary key, of f[a] over the stored Activities a
Total(acts, f) ==
    LET n == nextActivityId - 1
        val == [i \in 1..n |->
                  IF \E a \in acts : a.id = i
                  THEN f[CHOOSE a \in acts : a.id = i]
                  ELSE 0]
    IN  SumTo(val, n)

\* The Monday of the week of d: the last day on or before d that is a Monday
\* (0001-01-01, ordinal 1, is a Monday)
MondayOrdinal(d) ==
    CHOOSE o \in (ToOrdinal(d) - 6)..ToOrdinal(d) : o % 7 = 1

\* a is dated on or after the first day of the month of day
ThisMonthOrLater(a, day) ==
    \/ YearOf(a.date) > YearOf(day)
    \/ YearOf(a.date) = YearOf(day) /\ MonthOf(a.date) >= MonthOf(day)

MetricsAsSpecified(m, acts, actor, day) ==
    /\ m.total_duration =
          Total(acts, [a \in acts |-> IF a.user = actor THEN a.duration ELSE 0])
    /\ m.total_calories_burned =
          Total(acts, [a \in acts |-> IF a.user = actor THEN a.calories_burned ELSE 0])
    /\ m.total_distance =
          Total(acts, [a \in acts |->
                         IF a.user = actor /\ a.distance # NULL THEN a.distance ELSE 0])
    /\ m.weekly_activities =
          Total(acts, [a \in acts |->
                         IF a.user = actor /\ ToOrdinal(a.date) >= MondayOrdinal(day)
                         THEN 1 ELSE 0])
    /\ m.monthly_activities =
          Total(acts, [a \in acts |->
                         IF a.user = actor /\ ThisMonthOrLater(a, day) THEN 1 ELSE 0])
    /\ (\A a \in acts : a.user # actor) =>
          m = [total_duration |-> 0, total_distance |-> 0,
               total_calories_burned |-> 0, weekly_activities |-> 0,
               monthly_activities |-> 0]

\* C8: the metrics operation changes no stored state and returns, over the
\* requesting identity's Activities only, the total duration and calories of all
\* of them, the total distance of those with a distance, the count of those
\* dated on or after the Monday of the current week and the count of those dated
\* on or after the first day of the current month; with no Activity all five
\* values are 0 and the request succeeds.
C8_Metrics ==
    [][ (resp'.op = "metrics" /\ IsAuthenticated(resp'.actor)) =>
          /\ UNCHANGED <<users, activities, leaderboard>>
          /\ resp'.status = "ok"
          /\ \E m \in resp'.body :
                /\ resp'.body = {m}
                /\ MetricsAsSpecified(m, activities, resp'.actor, today)
      ]_vars

\* C8 witness: metrics returned for an identity whose one Activity is dated in
\* the current week but before the current month, while another identity has an
\* Activity without distance.
C8_Witness ==
    /\ resp.op = "metrics" /\ resp.status = "ok"
    /\ \E m \in resp.body :
          /\ m.total_distance = 500
          /\ m.weekly_activities = 1
          /\ m.monthly_activities = 0
          /\ m.total_duration = 30
    /\ \E a \in activities : a.user # resp.actor /\ a.distance = NULL

----------------------------------------------------------------------------
(* Leaderboard.update_leaderboard(user, month, year), one step per query *)

KeyOf(e) == [user |-> e.user, month |-> e.month, year |-> e.year]
CallKey(w) == KeyOf(call[w])

\* Leaderboard.Meta.unique_together = ['user', 'month', 'year'], never enforced
Mut_UniqueViolation(rows, k) == FALSE

\* Leaderboard.Meta.unique_together = ['user', 'month', 'year']: an INSERT of a
\* second row with the key of a stored row raises IntegrityError
UniqueViolation(rows, k) == \E e \in rows : KeyOf(e) = k

\* UPDATE that adds the aggregates to the stored totals
Mut_SaveDefaults(rows, id, c) ==
    {IF e.id = id
     THEN [e EXCEPT !.total_activities = @ + c.total_activities,
                    !.total_distance = @ + c.total_distance,
                    !.total_calories_burned = @ + c.total_calories_burned]
     ELSE e : e \in rows}

\* UPDATE ... WHERE user = ... : every row of the user is overwritten
Mut_SaveDefaultsByUser(rows, id, c) ==
    {IF e.user = c.user
     THEN [e EXCEPT !.total_activities = c.total_activities,
                    !.total_distance = c.total_distance,
                    !.total_calories_burned = c.total_calories_burned]
     ELSE e : e \in rows}

\* obj.save() of update_or_create: the defaults overwrite the row with this pk
SaveDefaults(rows, id, c) ==
    {IF e.id = id
     THEN [e EXCEPT !.total_activities = c.total_activities,
                    !.total_distance = c.total_distance,
                    !.total_calories_burned = c.total_calories_burned]
     ELSE e : e \in rows}

\* filter(user=user) alone: the month and the year are not part of the filter
Mut_Selected(acts, c) == {a \in acts : a.user = c.user}

\* activities = Activity.objects.filter(user=user, date__month=month, date__year=year)
Selected(acts, c) == Matching(acts, c)

\* Entry of update_leaderboard: the (lazy) queryset is built
Begin(w, user, month, year) ==
    /\ pc[w] = "idle"
    /\ IsAuthenticated(user)
    /\ pc' = [pc EXCEPT ![w] = "count"]
    /\ call' = [call EXCEPT ![w] = [NoCall EXCEPT !.user = user, !.month = month,
                                                   !.year = year]]
    /\ seen' = [seen EXCEPT ![w] = {Aggregate(activities, call'[w])}]
    /\ UNCHANGED <<users, activities, leaderboard, nextActivityId, nextLeaderboardId,
                   today, resp>>

\* total_activities = activities.count()
Count(w) ==
    /\ pc[w] = "count"
    /\ call' = [call EXCEPT ![w].total_activities =
                                  Cardinality(Selected(activities, call[w]))]
    /\ pc' = [pc EXCEPT ![w] = "sum_distance"]
    /\ UNCHANGED <<users, activities, leaderboard, nextActivityId, nextLeaderboardId,
                   today, seen, resp>>

\* total_distance = activities.aggregate(Sum('distance'))['distance__sum'] or 0
SumDistance(w) ==
    /\ pc[w] = "sum_distance"
    /\ LET rows == Selected(activities, call[w])
       IN  call' = [call EXCEPT ![w].total_distance =
                                     OrZero(SqlSum([a \in rows |-> a.distance], rows))]
    /\ pc' = [pc EXCEPT ![w] = "sum_calories"]
    /\ UNCHANGED <<users, activities, leaderboard, nextActivityId, nextLeaderboardId,
                   today, seen, resp>>

\* total_calories_burned = activities.aggregate(Sum('calories_burned'))[...] or 0
SumCalories(w) ==
    /\ pc[w] = "sum_calories"
    /\ LET rows == Selected(activities, call[w])
       IN  call' = [call EXCEPT ![w].total_calories_burned =
                                     OrZero(SqlSum([a \in rows |-> a.calories_burned], rows))]
    /\ pc' = [pc EXCEPT ![w] = "upsert_get"]
    /\ UNCHANGED <<users, activities, leaderboard, nextActivityId, nextLeaderboardId,
                   today, seen, resp>>

\* update_or_create: the lookup get(user=user, month=month, year=year)
UpsertGet(w) ==
    /\ pc[w] = "upsert_get"
    /\ LET found == {e \in leaderboard : KeyOf(e) = CallKey(w)}
       IN  IF found = {}
           THEN /\ pc' = [pc EXCEPT ![w] = "upsert_create"]
                /\ UNCHANGED call
           ELSE /\ pc' = [pc EXCEPT ![w] = "upsert_save"]
                /\ call' = [call EXCEPT ![w].obj = (CHOOSE e \in found : TRUE).id]
    /\ UNCHANGED <<users, activities, leaderboard, nextActivityId, nextLeaderboardId,
                   today, seen, resp>>

Returned(w, row) ==
    [Response("recompute", call[w].user, "ok") EXCEPT
        !.key = CallKey(w),
        !.body = {row},
        !.again = (resp.op = "recompute" /\ resp.key = CallKey(w))]

\* update_or_create: the lookup found nothing, so the row is created; on
\* IntegrityError the row of the concurrent creator is fetched and then saved
UpsertCreate(w) ==
    /\ pc[w] = "upsert_create"
    /\ IF UniqueViolation(leaderboard, CallKey(w))
       THEN /\ pc' = [pc EXCEPT ![w] = "upsert_save"]
            /\ call' = [call EXCEPT ![w].obj =
                          (CHOOSE e \in leaderboard : KeyOf(e) = CallKey(w)).id]
            /\ UNCHANGED <<leaderboard, nextLeaderboardId, seen, resp>>
       ELSE LET row == [id |-> nextLeaderboardId,
                        user |-> call[w].user, month |-> call[w].month,
                        year |-> call[w].year,
                        total_activities |-> call[w].total_activities,
                        total_distance |-> call[w].total_distance,
                        total_calories_burned |-> call[w].total_calories_burned]
            IN  /\ leaderboard' = leaderboard \cup {row}
                /\ nextLeaderboardId' = nextLeaderboardId + 1
                /\ resp' = Returned(w, row)
                /\ pc' = [pc EXCEPT ![w] = "idle"]
                /\ call' = [call EXCEPT ![w] = NoCall]
                /\ seen' = [seen EXCEPT ![w] = {}]
    /\ UNCHANGED <<users, activities, nextActivityId, today>>

\* update_or_create: the row exists, so the defaults are set on it and saved
UpsertSave(w) ==
    /\ pc[w] = "upsert_save"
    /\ leaderboard' = SaveDefaults(leaderboard, call[w].obj, call[w])
    /\ resp' = Returned(w, CHOOSE e \in leaderboard' : e.id = call[w].obj)
    /\ pc' = [pc EXCEPT ![w] = "idle"]
    /\ call' = [call EXCEPT ![w] = NoCall]
    /\ seen' = [seen EXCEPT ![w] = {}]
    /\ UNCHANGED <<users, activities, nextActivityId, nextLeaderboardId, today>>

----------------------------------------------------------------------------
(* LeaderboardViewSet *)

\* x is ordered strictly before y by the model's Meta.ordering on one month:
\* '-total_activities' alone
Mut_Before(x, y) == x.total_activities > y.total_activities

\* x is ordered strictly before y by
\* order_by('-total_activities', '-total_distance', '-total_calories_burned')
Before(x, y) ==
    \/ x.total_activities > y.total_activities
    \/ /\ x.total_activities = y.total_activities
       /\ x.total_distance > y.total_distance
    \/ /\ x.total_activities = y.total_activities
       /\ x.total_distance = y.total_distance
       /\ x.total_calories_burned > y.total_calories_burned

\* The orders in which ORDER BY may return the rows of S: rows with equal sort
\* keys come in any order
Orderings(S) ==
    {seq \in [1..Cardinality(S) -> S] :
        /\ \A i, j \in 1..Cardinality(S) : i # j => seq[i] # seq[j]
        /\ \A i, j \in 1..Cardinality(S) : i < j => ~Before(seq[j], seq[i])}

\* LeaderboardViewSet.get_queryset: the possible results
LeaderboardViewSet_get_queryset(month, year) ==
    LET m == IF month = ABSENT THEN MonthOf(today) ELSE month
        y == IF year = ABSENT THEN YearOf(today) ELSE year
    IN  Orderings({e \in leaderboard : e.month = m /\ e.year = y})

\* GET /leaderboard/?month=&year=
LeaderboardList(actor, month, year) ==
    /\ IF ~IsAuthenticated(actor)
       THEN resp' = [Response("leaderboard", actor, "not_authenticated") EXCEPT
                       !.key = [user |-> Anon, month |-> month, year |-> year]]
       ELSE \E seq \in LeaderboardViewSet_get_queryset(month, year) :
               resp' = [Response("leaderboard", actor, "ok") EXCEPT
                          !.key = [user |-> Anon, month |-> month, year |-> year],
                          !.ranking = seq]
    /\ UNCHANGED <<users, activities, leaderboard, nextActivityId, nextLeaderboardId,
                   today, pc, call, seen>>

----------------------------------------------------------------------------
(* update_leaderboard as one uninterrupted call: the steps above in sequence *)

update_leaderboard(user, month, year) ==
    LET args == [NoCall EXCEPT !.user = user, !.month = month, !.year = year]
        rows == Selected(activities, args)
        c == [args EXCEPT
                !.total_activities = Cardinality(rows),
                !.total_distance = OrZero(SqlSum([a \in rows |-> a.distance], rows)),
                !.total_calories_burned =
                    OrZero(SqlSum([a \in rows |-> a.calories_burned], rows))]
        found == {e \in leaderboard : KeyOf(e) = KeyOf(args)}
        answer(row) ==
            [Response("recompute", user, "ok") EXCEPT
                !.key = KeyOf(args),
                !.body = {row},
                !.again = (resp.op = "recompute" /\ resp.key = KeyOf(args))]
    IN
    /\ Idle
    /\ IsAuthenticated(user)
    /\ IF found = {} /\ ~UniqueViolation(leaderboard, KeyOf(args))
       THEN LET row == [id |-> nextLeaderboardId,
                        user |-> user, month |-> month, year |-> year,
                        total_activities |-> c.total_activities,
                        total_distance |-> c.total_distance,
                        total_calories_burned |-> c.total_calories_burned]
            IN  /\ leaderboard' = leaderboard \cup {row}
                /\ nextLeaderboardId' = nextLeaderboardId + 1
                /\ resp' = answer(row)
       ELSE LET obj == CHOOSE e \in leaderboard : KeyOf(e) = KeyOf(args)
            IN  /\ leaderboard' = SaveDefaults(leaderboard, obj.id, c)
                /\ resp' = answer(CHOOSE e \in leaderboard' : e.id = obj.id)
                /\ UNCHANGED nextLeaderboardId
    /\ UNCHANGED <<users, activities, nextActivityId, today, pc, call, seen>>

----------------------------------------------------------------------------
(* SpecBoard: activity writes, user deletion and recomputation, one call at a time *)

BoardPayloads ==
    { Payload("Running", 30, 500, 300, 20240305),
      Payload("Weightlifting", 45, ABSENT, 200, 20240310) }

BoardMonths == {3, 4}
BoardYears == {2024}

InitBoard == InitStore({Admin, Member}, {20240313})

NextBoard ==
    \/ \E actor \in UserPool, data \in BoardPayloads : CreateActivity(actor, data)
    \/ \E actor \in UserPool, id \in ActivityIds, data \in BoardPayloads :
            UpdateActivity(actor, id, NoQuery, data, FALSE)
    \/ \E actor \in UserPool, id \in ActivityIds : DestroyActivity(actor, id, NoQuery)
    \/ \E month \in BoardMonths, year \in BoardYears : update_leaderboard("A", month, year)
    \/ \E actor \in UserPool, target \in UserPool : DestroyUser(actor, target)

SpecBoard == InitBoard /\ [][NextBoard]_vars

----------------------------------------------------------------------------
(* SpecRanking: recomputation for two identities and the ranking *)

RankingPayloads(actor) ==
    IF actor = "A"
    THEN { Payload("Running", 30, 500, 300, 20240305),
           Payload("Weightlifting", 45, ABSENT, 200, 20240310) }
    ELSE { Payload("Weightlifting", 45, ABSENT, 200, 20240310),
           Payload("Cycling", 30, 0, 300, 20240305) }

RankingPeriods == { <<ABSENT, ABSENT>>, <<3, 2024>>, <<4, 2024>> }

InitRanking == InitStore({Admin, Member}, {20240313})

NextRanking ==
    \/ \E actor \in UserPool : \E data \in RankingPayloads(actor) :
            CreateActivity(actor, data)
    \/ \E actor \in UserPool, id \in ActivityIds : DestroyActivity(actor, id, NoQuery)
    \/ \E user \in UserPool : update_leaderboard(user, 3, 2024)
    \/ \E actor \in Identities, p \in RankingPeriods : LeaderboardList(actor, p[1], p[2])

SpecRanking == InitRanking /\ [][NextRanking]_vars

----------------------------------------------------------------------------
(* SpecConc: concurrent update_leaderboard calls for one key, while the owner *)
(* logs activities                                                            *)

ConcPayloads ==
    { Payload("Running", 30, 500, 300, 20240305),
      Payload("Weightlifting", 45, ABSENT, 200, 20240310) }

InitConc == InitStore({Admin}, {20240313})

NextConc ==
    \/ \E data \in ConcPayloads : CreateActivity("A", data)
    \/ \E w \in Workers : Begin(w, "A", 3, 2024)
    \/ \E w \in Workers : Count(w)
    \/ \E w \in Workers : SumDistance(w)
    \/ \E w \in Workers : SumCalories(w)
    \/ \E w \in Workers : UpsertGet(w)
    \/ \E w \in Workers : UpsertCreate(w)
    \/ \E w \in Workers : UpsertSave(w)

SpecConc == InitConc /\ [][NextConc]_vars

----------------------------------------------------------------------------
(* SpecRace: one update_leaderboard call interleaved with the owner's writes *)

InitRace == InitStore({Admin}, {20240313})

NextRace ==
    \/ \E data \in ConcPayloads : CreateActivity("A", data)
    \/ \E id \in ActivityIds :
            UpdateActivity("A", id, NoQuery, Payload("Running", 30, 500, 300, 20240305), FALSE)
    \/ \E id \in ActivityIds : DestroyActivity("A", id, NoQuery)
    \/ Begin("w1", "A", 3, 2024)
    \/ Count("w1")
    \/ SumDistance("w1")
    \/ SumCalories("w1")
    \/ UpsertGet("w1")
    \/ UpsertCreate("w1")
    \/ UpsertSave("w1")

SpecRace == InitRace /\ [][NextRace]_vars

----------------------------------------------------------------------------
(* Claims about the Leaderboard *)

\* Activity a is one of owner k.user dated in month k.month of year k.year
InPeriod(a, k) ==
    /\ a.user = k.user
    /\ a.date > k.year * 10000 + k.month * 100
    /\ a.date <= k.year * 10000 + k.month * 100 + 31

TotalsAsSpecified(e, acts, k) ==
    /\ e.total_activities =
          Total(acts, [a \in acts |-> IF InPeriod(a, k) THEN 1 ELSE 0])
    /\ e.total_distance =
          Total(acts, [a \in acts |->
                         IF InPeriod(a, k) /\ a.distance # NULL THEN a.distance ELSE 0])
    /\ e.total_calories_burned =
          Total(acts, [a \in acts |-> IF InPeriod(a, k) THEN a.calories_burned ELSE 0])
    /\ (\A a \in acts : ~InPeriod(a, k)) =>
          /\ e.total_activities = 0
          /\ e.total_distance = 0
          /\ e.total_calories_burned = 0

\* C3: after recompute(owner, month, year) ran with no other operation during
\* the call, the one (owner, month, year) row holds the number of the owner's
\* Activities dated in that month and year, the sum of their distances with an
\* absent distance counted as 0, and the sum of their calories; with no
\* matching Activity the three totals are 0.
C3_RecomputeTotals ==
    resp.op = "recompute" =>
        \E e \in leaderboard :
            /\ {x \in leaderboard : KeyOf(x) = resp.key} = {e}
            /\ resp.body = {e}
            /\ TotalsAsSpecified(e, activities, resp.key)

\* C3 witness: Running 5.00 km / 300 cal on 2024-03-05 and Weightlifting without
\* distance / 200 cal on 2024-03-10, then recompute(A, 3, 2024): 2, 5.00, 500.
C3_Witness ==
    /\ resp.op = "recompute"
    /\ resp.key = [user |-> "A", month |-> 3, year |-> 2024]
    /\ \E a \in activities : a.activity_type = "Running" /\ a.date = 20240305
    /\ \E a \in activities : a.activity_type = "Weightlifting" /\ a.distance = NULL
    /\ \E e \in leaderboard :
          /\ KeyOf(e) = resp.key
          /\ e.total_activities = 2
          /\ e.total_distance = 500
          /\ e.total_calories_burned = 500

\* C4: a second recompute(owner, month, year) with no Activity created, updated
\* or deleted since the first leaves the set of LeaderboardEntry rows and their
\* stored totals as they were.
C4_Idempotent ==
    [][ (resp.op = "recompute" /\ resp'.op = "recompute" /\ resp'.key = resp.key)
          => leaderboard' = leaderboard ]_vars

\* C4 witness: the recomputation just completed repeats the one before it, on
\* a row that counts two Activities.
C4_Witness ==
    /\ resp.op = "recompute"
    /\ resp.again
    /\ \E e \in resp.body : e.total_activities = 2 /\ e \in leaderboard

ActivityWrites == {"create", "put", "patch", "delete"}

OtherRows(rows, k) == {e \in rows : KeyOf(e) # k}

\* C6 (amended): creating, updating or deleting an Activity never creates,
\* changes or removes a LeaderboardEntry; the rows change only through a
\* recompute(owner, month, year) call, which changes only the row of that key,
\* or through the deletion of a user record, which removes exactly that user's
\* rows.
C6_ExplicitRecomputeOrCascade ==
    [][ /\ resp'.op \in ActivityWrites => leaderboard' = leaderboard
        /\ leaderboard' # leaderboard =>
              \/ /\ resp'.op = "recompute"
                 /\ OtherRows(leaderboard', resp'.key) = OtherRows(leaderboard, resp'.key)
              \/ /\ resp'.op = "delete_user"
                 /\ leaderboard' = {e \in leaderboard : e.user \in {u.id : u \in users'}}
                 /\ Cardinality(users') = Cardinality(users) - 1
      ]_vars

\* C6 as claimed: the rows change only through a recompute call.
C6_AsClaimed ==
    [][ /\ resp'.op \in ActivityWrites => leaderboard' = leaderboard
        /\ leaderboard' # leaderboard =>
              /\ resp'.op = "recompute"
              /\ OtherRows(leaderboard', resp'.key) = OtherRows(leaderboard, resp'.key)
      ]_vars

\* C6 witness: an Activity write has just succeeded and the stored row of its
\* owner's month no longer equals the aggregate, while a second row is stored.
C6_Witness ==
    /\ resp.op \in ActivityWrites
    /\ resp.status \in {"created", "ok", "no_content"}
    /\ \E e \in leaderboard :
          /\ e.user = resp.actor
          /\ ~TotalsAsSpecified(e, activities, KeyOf(e))
    /\ Cardinality(leaderboard) = 2

\* C7: a leaderboard listing for month m and year y (the current month and
\* year when omitted) returns exactly the rows of that month and year, each
\* once, ordered descending by total_activities, ties broken by descending
\* total_distance, remaining ties by descending total_calories_burned.
C7_Ranking ==
    (resp.op = "leaderboard" /\ resp.status = "ok") =>
        LET m == IF resp.key.month = ABSENT THEN MonthOf(today) ELSE resp.key.month
            y == IF resp.key.year = ABSENT THEN YearOf(today) ELSE resp.key.year
            expected == {e \in leaderboard : e.month = m /\ e.year = y}
            r == resp.ranking
        IN  /\ {r[i] : i \in 1..Len(r)} = expected
            /\ Len(r) = Cardinality(expected)
            /\ \A i \in 1..(Len(r) - 1) :
                  \/ r[i].total_activities > r[i + 1].total_activities
                  \/ /\ r[i].total_activities = r[i + 1].total_activities
                     /\ \/ r[i].total_distance > r[i + 1].total_distance
                        \/ /\ r[i].total_distance = r[i + 1].total_distance
                           /\ r[i].total_calories_burned >= r[i + 1].total_calories_burned

\* C7 witness: a listing with the period omitted ranks two identities that tie
\* on total_activities, and a listing exists where they tie on distance too.
C7_Witness ==
    /\ resp.op = "leaderboard" /\ resp.status = "ok"
    /\ resp.key.month = ABSENT
    /\ Len(resp.ranking) = 2
    /\ resp.ranking[1].user # resp.ranking[2].user
    /\ resp.ranking[1].total_activities = resp.ranking[2].total_activities
    /\ resp.ranking[1].total_distance = resp.ranking[2].total_distance
    /\ resp.ranking[1].total_calories_burned > resp.ranking[2].total_calories_burned

\* C5: there is at most one LeaderboardEntry per (owner, month, year) in every
\* reachable state, and concurrent recompute calls for one key end with exactly
\* one row for it.
C5_OneRowPerKey ==
    /\ \A e1, e2 \in leaderboard : KeyOf(e1) = KeyOf(e2) => e1 = e2
    /\ resp.op = "recompute" =>
          Cardinality({e \in leaderboard : KeyOf(e) = resp.key}) = 1

\* C5 witness: a call that found no row is about to insert while the row of its
\* key has meanwhile been inserted by the other call, which has returned.
C5_Witness ==
    /\ resp.op = "recompute"
    /\ \E w \in Workers :
          /\ pc[w] = "upsert_create"
          /\ \E e \in leaderboard : KeyOf(e) = CallKey(w)

\* C10 as claimed: the totals a recompute call stores are the count and sums
\* over one state of the Activity store that occurred between the call's start
\* and its end.
C10_ConsistentSnapshot ==
    [][ \A w \in Workers :
          (pc[w] \in {"upsert_create", "upsert_save"} /\ pc'[w] = "idle") =>
              [n |-> call[w].total_activities,
               distance |-> call[w].total_distance,
               calories |-> call[w].total_calories_burned] \in seen[w]
      ]_vars

====
